---- MODULE Spec2Model ----
(***************************************************************************)
(* Model of the open-ephys .continuous reader (oio/open_ephys_io.py) and   *)
(* of the command line driver (oio/__main__.py).                           *)
(*                                                                         *)
(* A file on disk is a 1024-byte header followed by whole 2070-byte        *)
(* records.  Reads are modelled at byte granularity: np.fromfile takes as  *)
(* many whole items of the record dtype as fit between the handle's        *)
(* position and the end of the file, and a field of an item holds a        *)
(* record's field only when its bytes lie on that field in the file.       *)
(* Bytes that are sample data have no modelled value: an item field that   *)
(* falls on them takes a nondeterministic value.                           *)
(*                                                                         *)
(* A handle is released only by an explicit close; finalizers run by the   *)
(* garbage collector are not modelled.                                     *)
(***************************************************************************)
EXTENDS Integers, Sequences, FiniteSets, TLC

\* ------------------------------------------------------------ constants
SIZE_HEADER == 1024
NUM_SAMPLES == 1024
SIZE_RECORD == 2070
REC_MARKER == <<0, 1, 2, 3, 4, 5, 6, 7, 8, 255>>
BLOCKS_PER_ITER == 1000
\* 8-byte timestamp + 2-byte n_samples + 2-byte rec_num
REC_HEAD == 12

\* --------------------------------------------------------------- bounds
\* records in a file
MaxRecords == 2
\* largest raw timestamp (sample clock ticks) of a record
MaxTick == 2
\* largest requested time (microseconds)
MaxTime == 4
\* largest records_per_iter
MaxCount == 2
\* records of a file whose marker is corrupt
MaxCorrupt == 1

\* None of Python; an optional value is None or Some(v)
None == <<>>
Some(v) == <<v>>
Val(o) == o[1]

Min(S) == CHOOSE x \in S : \A y \in S : x <= y
Max(S) == CHOOSE x \in S : \A y \in S : x >= y
Least(a, b) == IF a <= b THEN a ELSE b

Range(s) == {s[i] : i \in 1..Len(s)}
NonDecreasing(s) == \A i \in 1..Len(s) - 1 : s[i] <= s[i + 1]
Increasing(s) == \A i \in 1..Len(s) - 1 : s[i] < s[i + 1]

\* ---------------------------------------------------------- file content
\* the marker as written, and two one-byte corruptions of it
BadFirst == [REC_MARKER EXCEPT ![1] = 9]
BadLast == [REC_MARKER EXCEPT ![10] = 254]
Markers == {REC_MARKER, BadFirst, BadLast}

\* header['blockLength'] is Some(b); NoHeader: the header text lacks a
\* required key, or holds a value that does not convert
NoHeader == None
BlockLengths == {512, 1024}
SampleRates == {500000}

Ticks == 0..MaxTick

\* ts[r], mark[r]: raw timestamp and marker of record r (1-based here,
\* block r-1 of the source)
FilesOf(n) ==
    {[ts |-> t, mark |-> m, blockLength |-> b, sampleRate |-> sr] :
        t \in {s \in [1..n -> Ticks] : NonDecreasing(s)},
        m \in {x \in [1..n -> Markers] :
                 Cardinality({i \in 1..n : x[i] # REC_MARKER}) <= MaxCorrupt},
        b \in {Some(x) : x \in BlockLengths} \cup {NoHeader},
        sr \in SampleRates}
Files == UNION {FilesOf(n) : n \in 0..MaxRecords}
NoFile == [ts |-> <<>>, mark |-> <<>>, blockLength |-> NoHeader, sampleRate |-> 500000]
FileSize(f) == SIZE_HEADER + Len(f.ts) * SIZE_RECORD

\* data_dt(num_samples).itemsize
ItemSize(num_samples) == REC_HEAD + 2 * num_samples + Len(REC_MARKER)

\* 1.e6 / header['sampleRate'] (the sample rates of the model divide 1e6)
ConvUsec(f) == 1000000 \div f.sampleRate

\* np.fromfile(fid, dtype, count): number of whole items read at offset pos
FromFileCount(f, pos, itemsize, count) ==
    IF pos >= FileSize(f) THEN 0
    ELSE Least(count, (FileSize(f) - pos) \div itemsize)

\* whether byte offset off is the first byte of a record
RecordStart(f, off) ==
    /\ off >= SIZE_HEADER
    /\ off < FileSize(f)
    /\ (off - SIZE_HEADER) % SIZE_RECORD = 0
RecordAt(off) == (off - SIZE_HEADER) \div SIZE_RECORD + 1

\* item['timestamp'] of the item at offset off; g: value of sample bytes
ItemTimestamp(f, off, g) ==
    IF RecordStart(f, off) THEN f.ts[RecordAt(off)] ELSE g

\* item['rec_mark'] of the item of size itemsize at offset off
ItemMarker(f, off, itemsize, g) ==
    LET m == off + itemsize - SIZE_RECORD
    IN IF RecordStart(f, m) THEN f.mark[RecordAt(m)] ELSE g

\* the record an item's samples come from; 0 when the item does not lie
\* on one record
ItemRecord(f, off, itemsize) ==
    IF itemsize = SIZE_RECORD /\ RecordStart(f, off) THEN RecordAt(off) ELSE 0

\* values an item's timestamp takes when its bytes are sample data: one
\* value for all such items of a scan
Garbage == {0, MaxTick}
NoGarbage == Min(Garbage)
\* the values the index scan can read from sample bytes: with the record
\* dtype of SIZE_RECORD bytes every item lies on a record
GarbageFor(blockLength) ==
    IF ItemSize(blockLength) = SIZE_RECORD THEN {NoGarbage} ELSE Garbage
\* the marker bytes the item at offset off can hold
MarkersFor(f, off, blockLength) ==
    IF RecordStart(f, off + ItemSize(blockLength) - SIZE_RECORD)
    THEN {REC_MARKER} ELSE Markers

\* one np.fromfile of the index scan, and the batches after it
RECURSIVE ScanBatches(_, _, _, _, _)
ScanBatches(f, itemsize, pos, batches, g) ==
    IF batches = 0 THEN <<>>
    ELSE LET k == FromFileCount(f, pos, itemsize, BLOCKS_PER_ITER)
             buf == [j \in 1..k |->
                        ItemTimestamp(f, pos + (j - 1) * itemsize, g)
                            * ConvUsec(f)]
         IN buf \o ScanBatches(f, itemsize, pos + k * itemsize, batches - 1, g)

\* n_records property
n_records(f) == (FileSize(f) - SIZE_HEADER) \div SIZE_RECORD

\* block_timestamps property, first access: the scanned index
block_timestamps(f, blockLength, g) ==
    ScanBatches(f, ItemSize(blockLength), SIZE_HEADER,
                (n_records(f) + BLOCKS_PER_ITER - 1) \div BLOCKS_PER_ITER, g)

\* np.where(bt < t)[0] and np.where(bt > t)[0], as 0-based block numbers
WhereLess(bt, t) == {i - 1 : i \in {j \in 1..Len(bt) : bt[j] < t}}
WhereGreater(bt, t) == {i - 1 : i \in {j \in 1..Len(bt) : bt[j] > t}}

\* first_block_of with np.where(bt <= t_min)
first_block_inclusive(bt, t_min) ==
    IF t_min = None \/ Val(t_min) <= bt[1] THEN 0
    ELSE Max({i - 1 : i \in {j \in 1..Len(bt) : bt[j] <= Val(t_min)}})

first_block_of(bt, t_min) ==
    IF t_min = None \/ Val(t_min) <= bt[1] THEN 0
    ELSE Max(WhereLess(bt, Val(t_min)))

\* n_blocks_of with np.where(bt >= t_max)
n_blocks_inclusive(bt, n, first_block, t_max) ==
    IF t_max = None \/ Val(t_max) >= bt[Len(bt)] THEN n - first_block
    ELSE Min({i - 1 : i \in {j \in 1..Len(bt) : bt[j] >= Val(t_max)}})
            - first_block

n_blocks_of(bt, n, first_block, t_max) ==
    IF t_max = None \/ Val(t_max) >= bt[Len(bt)] THEN n - first_block
    ELSE Min(WhereGreater(bt, Val(t_max))) - first_block

\* _records_for_interval: bt[0] and bt[-1] raise IndexError on an empty
\* index; the index is not touched when both bounds are None
_records_for_interval(bt, n, t_min, t_max) ==
    IF (t_min # None \/ t_max # None) /\ bt = <<>>
    THEN [err |-> "IndexError", first_block |-> 0, n_blocks |-> 0]
    ELSE LET fb == first_block_of(bt, t_min)
         IN [err |-> "none", first_block |-> fb,
             n_blocks |-> n_blocks_of(bt, n, fb, t_max)]

\* read_record(count): the handle at pos; gm: marker bytes read from
\* sample data.  A negative count reads every remaining item.
read_record(f, pos, blockLength, count, gm) ==
    LET itemsize == ItemSize(blockLength)
        all == IF pos >= FileSize(f) THEN 0 ELSE (FileSize(f) - pos) \div itemsize
        k == IF count < 0 THEN all ELSE Least(count, all)
        recs == [j \in 1..k |-> ItemRecord(f, pos + (j - 1) * itemsize, itemsize)]
    IN IF k = 0
       THEN [err |-> "IndexError", pos |-> pos, recs |-> <<>>, len |-> 0]
       ELSE IF ItemMarker(f, pos, itemsize, gm) # REC_MARKER
       THEN [err |-> "AssertionError", pos |-> pos + k * itemsize,
             recs |-> <<>>, len |-> 0]
       ELSE [err |-> "none", pos |-> pos + k * itemsize,
             recs |-> recs, len |-> k * blockLength]

\* ------------------------------------------------------------------ state
VARIABLES
    file,      \* content of the file at the reader's path
    cf,        \* the ContinuousFile object
    res,       \* outcome of the last call on it
    yielded,   \* records delivered by __next__ so far, in order
    handles,   \* handles opened by ContinuousFile.__init__ and not closed
    load,      \* frame of load_continuous_tsd
    job,       \* frame of main
    chk        \* readers handed to check_headers, and its outcome

vars == <<file, cf, res, yielded, handles, load, job, chk>>

OptTimes == {None} \cup {Some(t) : t \in 0..MaxTime}

NoReader ==
    [state |-> "none", fid |-> "none", pos |-> 0, blockLength |-> 0,
     cur_block |-> 0, last_block |-> 0, records_per_iter |-> 0,
     t_min |-> None, t_max |-> None, entered |-> FALSE,
     cached |-> FALSE, bts |-> <<>>]

NoResult ==
    [op |-> "none", err |-> "none", recs |-> <<>>, len |-> 0,
     tblocks |-> <<>>, tslen |-> 0, selected |-> FALSE, first_block |-> 0, n_blocks |-> 0,
     t_min |-> None, t_max |-> None]

NoLoad == [pc |-> "off", kind |-> "str", paths |-> 0, i |-> 0,
           t_min |-> None, t_max |-> None, tslen |-> 0, err |-> "none"]
NoArgs ==
    [remove_trailing_zeros |-> FALSE, split_groups |-> FALSE,
     channels |-> "none", layout_groups |-> <<>>, targets |-> 0,
     output |-> "none"]
NoJob ==
    [pc |-> "off", args |-> NoArgs, groups |-> <<>>, g |-> 0, s |-> 0,
     io |-> <<>>, calls |-> <<>>, out |-> <<>>, err |-> "none"]
NoCheck == [pc |-> "off", oe_file |-> <<>>, err |-> "none", msg |-> {},
            ret |-> <<>>]

\* the index as the reader sees it: cached after the first access
Index(f, c, g) == IF c.cached THEN c.bts ELSE block_timestamps(f, c.blockLength, g)

\* ContinuousFile.__init__ on file f.  The handle is opened before the
\* header is read; a reader whose construction raises is in state "failed".
ContinuousFile(f, t_min, t_max, records_per_iter, g) ==
    LET opened == [NoReader EXCEPT !.fid = "open"]
    IN IF f.blockLength = NoHeader
       THEN [err |-> "HeaderError", cf |-> [opened EXCEPT !.state = "failed"]]
       ELSE LET hd == [opened EXCEPT !.blockLength = Val(f.blockLength),
                                     !.t_min = t_min, !.t_max = t_max]
                touch == t_min # None \/ t_max # None
                bt == IF touch THEN Index(f, hd, g) ELSE <<>>
                ix == [hd EXCEPT !.cached = touch, !.bts = bt]
                sel == _records_for_interval(bt, n_records(f), t_min, t_max)
            IN IF sel.err # "none"
               THEN [err |-> sel.err, cf |-> [ix EXCEPT !.state = "failed"]]
               ELSE [err |-> "none",
                     cf |-> [ix EXCEPT !.state = "live",
                                       !.cur_block = sel.first_block,
                                       !.last_block = sel.first_block + sel.n_blocks,
                                       !.records_per_iter = records_per_iter]]

\* t = block_timestamps[r] + conv_usec * np.arange(NUM_SAMPLES)
SampleTimestamps(bt, r, conv) ==
    [i \in 1..NUM_SAMPLES |-> bt[r + 1] + conv * (i - 1)]

\* the loop of read_interval: the blocks whose rows of NUM_SAMPLES
\* timestamps are stacked onto tstamps, in stacking order
RECURSIVE StackedBlocks(_, _)
StackedBlocks(r, stop) ==
    IF r >= stop THEN <<>> ELSE <<r>> \o StackedBlocks(r + 1, stop)

\* len(tstamps) after stacking the rows of blocks
StackedLen(blocks) == Len(blocks) * NUM_SAMPLES

\* the assert compiled away
SameLengthUnchecked(data_len, tstamps_len) == TRUE

\* assert len(data) == len(tstamps)
SameLength(data_len, tstamps_len) == data_len = tstamps_len

\* read_interval(t_min, t_max) on reader c
read_interval(f, c, t_min, t_max, g, gm) ==
    LET bt == Index(f, c, g)
        sel == _records_for_interval(bt, n_records(f), t_min, t_max)
        fb == sel.first_block
        nb == sel.n_blocks
        touch == t_min # None \/ t_max # None
        c1 == IF touch THEN [c EXCEPT !.cached = TRUE, !.bts = bt] ELSE c
        base == [NoResult EXCEPT !.op = "read_interval", !.t_min = t_min,
                                 !.t_max = t_max]
    IN IF sel.err # "none"
       THEN [cf |-> c1, res |-> [base EXCEPT !.err = sel.err]]
       ELSE LET sk == [base EXCEPT !.selected = TRUE, !.first_block = fb,
                                   !.n_blocks = nb]
            IN IF c.fid # "open"
               THEN [cf |-> c1, res |-> [sk EXCEPT !.err = "ValueError"]]
               ELSE
       LET rr == read_record(f, SIZE_HEADER + fb * SIZE_RECORD, c.blockLength, nb, gm)
           c2 == [c1 EXCEPT !.pos = rr.pos]
           c3 == IF nb > 0 THEN [c2 EXCEPT !.cached = TRUE, !.bts = bt] ELSE c2
       IN IF rr.err # "none"
          THEN [cf |-> c2, res |-> [sk EXCEPT !.err = rr.err]]
          ELSE IF \E r \in fb..(fb + nb - 1) : r + 1 > Len(bt)
          THEN [cf |-> c3, res |-> [sk EXCEPT !.err = "IndexError"]]
          ELSE LET ts == StackedBlocks(fb, fb + nb)
               IN IF ~SameLength(rr.len, StackedLen(ts))
                  THEN [cf |-> c3, res |-> [sk EXCEPT !.err = "AssertionError"]]
                  ELSE [cf |-> c3,
                        res |-> [sk EXCEPT !.recs = rr.recs, !.len = rr.len,
                                           !.tblocks = ts,
                                           !.tslen = StackedLen(ts)]]

\* ------------------------------------------------ one reader, iterated
InitIter ==
    /\ file \in Files
    /\ cf = NoReader
    /\ res = NoResult
    /\ yielded = <<>>
    /\ handles = 0
    /\ load = NoLoad
    /\ job = NoJob
    /\ chk = NoCheck

\* f = ContinuousFile(path, t_min, t_max, records_per_iter)
Construct ==
    /\ cf.state = "none"
    /\ \E t_min \in OptTimes, t_max \in OptTimes, n \in 1..MaxCount,
          g \in (IF file.blockLength = NoHeader THEN {NoGarbage}
                 ELSE GarbageFor(Val(file.blockLength))) :
         LET r == ContinuousFile(file, t_min, t_max, n, g)
         IN /\ cf' = r.cf
            /\ res' = [NoResult EXCEPT !.op = "init", !.err = r.err,
                                       !.t_min = t_min, !.t_max = t_max]
    /\ handles' = handles + 1
    /\ UNCHANGED <<file, yielded, load, job, chk>>

\* __enter__: with f: ...
Enter ==
    /\ cf.state = "live" /\ cf.fid = "open" /\ ~cf.entered
    /\ res.op = "init"
    /\ cf' = [cf EXCEPT !.pos = SIZE_HEADER, !.entered = TRUE]
    /\ UNCHANGED <<file, res, yielded, handles, load, job, chk>>

\* whether the consumer of the iterator goes on calling __next__
Iterating == res.op = "init" \/ (res.op = "next" /\ res.err = "none")

\* __next__
NextChunk ==
    /\ cf.state = "live" /\ Iterating
    /\ IF cf.cur_block > cf.last_block
       THEN /\ res' = [NoResult EXCEPT !.op = "next", !.err = "StopIteration"]
            /\ UNCHANGED <<cf, yielded>>
       ELSE IF cf.fid # "open"
       THEN /\ res' = [NoResult EXCEPT !.op = "next", !.err = "ValueError"]
            /\ UNCHANGED <<cf, yielded>>
       ELSE \E gm \in MarkersFor(file, cf.pos, cf.blockLength) :
              LET rr == read_record(file, cf.pos, cf.blockLength,
                                    cf.records_per_iter, gm)
              IN /\ cf' = [cf EXCEPT !.pos = rr.pos]
                 /\ res' = [NoResult EXCEPT !.op = "next", !.err = rr.err,
                                            !.recs = rr.recs, !.len = rr.len]
                 /\ yielded' = yielded \o rr.recs
    /\ UNCHANGED <<file, handles, load, job, chk>>

\* __exit__
Exit ==
    /\ cf.state = "live" /\ cf.entered /\ cf.fid = "open"
    /\ cf' = [cf EXCEPT !.fid = "closed"]
    /\ handles' = handles - 1
    /\ UNCHANGED <<file, res, yielded, load, job, chk>>

NextIter == Construct \/ Enter \/ NextChunk \/ Exit

SpecIter == InitIter /\ [][NextIter]_vars

\* --------------------------------------- one reader, read by interval
InitInterval == InitIter

\* f = ContinuousFile(path)
Open ==
    /\ cf.state = "none"
    /\ LET r == ContinuousFile(file, None, None, 1, NoGarbage)
       IN /\ cf' = r.cf
          /\ res' = [NoResult EXCEPT !.op = "init", !.err = r.err]
    /\ handles' = handles + 1
    /\ UNCHANGED <<file, yielded, load, job, chk>>

\* data, tstamps = f.read_interval(t_min, t_max), the reader's first call
ReadInterval ==
    /\ cf.state = "live" /\ res.op = "init"
    /\ \E t_min \in OptTimes, t_max \in OptTimes, g \in GarbageFor(cf.blockLength),
          gm \in Markers :
         LET r == read_interval(file, cf, t_min, t_max, g, gm)
         IN /\ cf' = r.cf
            /\ res' = r.res
    /\ UNCHANGED <<file, yielded, handles, load, job, chk>>

NextInterval == Open \/ ReadInterval

SpecInterval == InitInterval /\ [][NextInterval]_vars

\* ------------------------------------------------- load_continuous_tsd
\* paths in one call
MaxPaths == 2

PathKinds == {"str", "seq", "other"}

InitLoad ==
    /\ file = NoFile
    /\ cf = NoReader
    /\ res = NoResult
    /\ yielded = <<>>
    /\ handles = 0
    /\ \E k \in PathKinds, n \in 0..MaxPaths, t_min \in OptTimes, t_max \in OptTimes :
         /\ (k = "str" => n = 1) /\ (k = "other" => n = 0)
         /\ load = [NoLoad EXCEPT !.pc = "start", !.kind = k, !.paths = n,
                                  !.t_min = t_min, !.t_max = t_max]
    /\ job = NoJob
    /\ chk = NoCheck

\* isinstance(paths, str) / is_sequence(paths); paths[0] of an empty one
LoadCheckPaths ==
    /\ load.pc = "start"
    /\ load' = IF load.kind = "other"
               THEN [load EXCEPT !.pc = "raised", !.err = "TypeError"]
               ELSE IF load.paths = 0
               THEN [load EXCEPT !.pc = "raised", !.err = "IndexError"]
               ELSE [load EXCEPT !.pc = "open", !.i = 1]
    /\ UNCHANGED <<file, cf, res, yielded, handles, job, chk>>

\* f = ContinuousFile(paths[i]): the name f is rebound, the reader it
\* named before is dropped without a close
LoadOpen ==
    /\ load.pc = "open"
    /\ \E f \in Files :
         LET r == ContinuousFile(f, None, None, 1, NoGarbage)
         IN /\ file' = f
            /\ cf' = r.cf
            /\ res' = [NoResult EXCEPT !.op = "init", !.err = r.err]
            /\ load' = IF r.err = "none" THEN [load EXCEPT !.pc = "read"]
                       ELSE [load EXCEPT !.pc = "raised", !.err = r.err]
    /\ handles' = handles + 1
    /\ UNCHANGED <<yielded, job, chk>>

\* data, tstamps = f.read_interval(t_min, t_max); for the later paths
\* assert len(ts1) == len(tstamps)
LoadRead ==
    /\ load.pc = "read"
    /\ \E g \in GarbageFor(cf.blockLength), gm \in Markers :
         LET r == read_interval(file, cf, load.t_min, load.t_max, g, gm)
             n == r.res.tslen
         IN /\ cf' = r.cf
            /\ res' = r.res
            /\ load' =
                 IF r.res.err # "none"
                 THEN [load EXCEPT !.pc = "raised", !.err = r.res.err]
                 ELSE IF load.i > 1 /\ n # load.tslen
                 THEN [load EXCEPT !.pc = "raised", !.err = "AssertionError"]
                 ELSE IF load.i < load.paths
                 THEN [load EXCEPT !.pc = "open", !.i = load.i + 1,
                                   !.tslen = IF load.i = 1 THEN n ELSE load.tslen]
                 ELSE [load EXCEPT !.pc = "frame",
                                   !.tslen = IF load.i = 1 THEN n ELSE load.tslen]
    /\ UNCHANGED <<file, yielded, handles, job, chk>>

\* cont_tsd = nts.TsdFrame(...); return cont_tsd
LoadReturn ==
    /\ load.pc = "frame"
    /\ load' = [load EXCEPT !.pc = "returned"]
    /\ UNCHANGED <<file, cf, res, yielded, handles, job, chk>>

NextLoad == LoadCheckPaths \/ LoadOpen \/ LoadRead \/ LoadReturn

SpecLoad == InitLoad /\ [][NextLoad]_vars

\* ------------------------------------------------------ check_headers
\* readers handed to one check_headers call
MaxChannels == 2
\* largest record count of a reader
MaxNumRecords == 2

HeaderRates == {500000, 1000000}
BufferSizes == {1024, 2048}
\* what check_headers reads of a reader: num_records and three header keys
Readers ==
    [num_records : 1..MaxNumRecords, sampleRate : HeaderRates,
     bufferSize : BufferSizes, blockLength : BlockLengths]

\* len(set(values)) == 1
AllSame(values) == Cardinality(Range(values)) = 1

Column(oe_file, field) == [i \in 1..Len(oe_file) |-> oe_file[i][field]]

\* check_headers(oe_file): four bare asserts in this order, then the
\* tuple; a failed assert raises AssertionError without a message
check_headers(oe_file) ==
    LET no == [err |-> "AssertionError", msg |-> {}, ret |-> <<>>]
    IN IF ~AllSame(Column(oe_file, "num_records")) THEN no
       ELSE IF ~AllSame(Column(oe_file, "sampleRate")) THEN no
       ELSE IF ~AllSame(Column(oe_file, "bufferSize")) THEN no
       ELSE IF ~AllSame(Column(oe_file, "blockLength")) THEN no
       ELSE [err |-> "none", msg |-> {},
             ret |-> <<oe_file[1].num_records, oe_file[1].sampleRate,
                       oe_file[1].bufferSize, oe_file[1].blockLength>>]

InitHeaders ==
    /\ file = NoFile
    /\ cf = NoReader
    /\ res = NoResult
    /\ yielded = <<>>
    /\ handles = 0
    /\ load = NoLoad
    /\ job = NoJob
    /\ \E n \in 0..MaxChannels : \E fs \in [1..n -> Readers] :
         chk = [NoCheck EXCEPT !.pc = "call", !.oe_file = fs]

CheckHeaders ==
    /\ chk.pc = "call"
    /\ LET r == check_headers(chk.oe_file)
       IN chk' = [chk EXCEPT !.pc = "done", !.err = r.err, !.msg = r.msg,
                             !.ret = r.ret]
    /\ UNCHANGED <<file, cf, res, yielded, handles, load, job>>

NextHeaders == CheckHeaders

SpecHeaders == InitHeaders /\ [][NextHeaders]_vars

\* ----------------------------------------------------------------- main
\* input directories on the command line
MaxSources == 2
\* channel groups of a layout file
MaxGroups == 2

ChannelOptions == {"count", "list", "layout", "none"}
OutputOptions == {"none", "dir", "file"}
\* the channel_groups of a layout, in the order the dict yields them
Layouts ==
    {q \in UNION {[1..k -> 0..MaxGroups - 1] : k \in 0..MaxGroups} :
        \A i \in 1..Len(q), j \in 1..Len(q) : i # j => q[i] # q[j]}

Args ==
    {[remove_trailing_zeros |-> z, split_groups |-> sg, channels |-> c,
      layout_groups |-> l, targets |-> t, output |-> o] :
        z \in BOOLEAN, sg \in BOOLEAN, c \in ChannelOptions,
        l \in Layouts, t \in 0..MaxSources, o \in OutputOptions}

InitMain ==
    /\ file = NoFile
    /\ cf = NoReader
    /\ res = NoResult
    /\ yielded = <<>>
    /\ handles = 0
    /\ load = NoLoad
    /\ \E a \in Args :
         /\ (a.channels # "layout" => a.layout_groups = <<>>)
         /\ job = [NoJob EXCEPT !.pc = "config", !.args = a]
    /\ chk = NoCheck

\* the split_groups test left out
UnsupportedTrailingOnly(a) == a.remove_trailing_zeros

\* if cli_args.remove_trailing_zeros: raise ...
\* if cli_args.split_groups: raise ...
Unsupported(a) == a.remove_trailing_zeros \/ a.split_groups

MainCheckConfig ==
    /\ job.pc = "config"
    /\ job' = IF Unsupported(job.args)
              THEN [job EXCEPT !.pc = "raised", !.err = "NotImplementedError"]
              ELSE [job EXCEPT !.pc = "layout"]
    /\ UNCHANGED <<file, cf, res, yielded, handles, load, chk>>

\* channel groups from the channel count, the channel list or the layout
\* file; util.run_prb opens and runs the layout file and may raise
MainLayout ==
    /\ job.pc = "layout"
    /\ \/ /\ job.args.channels \in {"count", "list"}
          /\ job' = [job EXCEPT !.pc = "names", !.groups = <<0>>]
       \/ /\ job.args.channels = "layout"
          /\ \E ok \in BOOLEAN :
               job' = IF ok
                      THEN [job EXCEPT !.pc = "names",
                                       !.groups = job.args.layout_groups,
                                       !.io = Append(job.io, "run_prb")]
                      ELSE [job EXCEPT !.pc = "raised", !.err = "LayoutError",
                                       !.io = Append(job.io, "run_prb")]
       \/ /\ job.args.channels = "none"
          /\ job' = [job EXCEPT !.pc = "raised", !.err = "NotImplementedError"]
    /\ UNCHANGED <<file, cf, res, yielded, handles, load, chk>>

\* output file name: cli_args.target[0] is read unless an output file
\* name was given
MainNames ==
    /\ job.pc = "names"
    /\ job' = IF job.args.output # "file" /\ job.args.targets = 0
              THEN [job EXCEPT !.pc = "raised", !.err = "IndexError"]
              ELSE [job EXCEPT !.pc = "loop", !.g = 1, !.s = 1,
                               !.out = [i \in 1..Len(job.groups) |-> <<>>]]
    /\ UNCHANGED <<file, cf, res, yielded, handles, load, chk>>

\* output_path of the group at position g: the name holds the group id
output_path(groups, g) == groups[g]

\* append left at False for every source
append_never(append_dat) == FALSE

\* append=bool(append_dat), append_dat the index of the source from 0
append_of(append_dat) == append_dat # 0

\* the sink of continuous_to_dat: a first source starts the output file,
\* an appended source is written after what the file holds
ContinuousToDat(content, source, append) ==
    IF append THEN Append(content, source) ELSE <<source>>

\* one continuous_to_dat call of the double loop, and the step to the
\* next source or the next group; a call that raises ends main
MainConvert ==
    /\ job.pc = "loop"
    /\ job.g <= Len(job.groups) /\ job.s <= job.args.targets
    /\ LET call == [cg |-> job.groups[job.g], source |-> job.s,
                    append |-> append_of(job.s - 1),
                    path |-> output_path(job.groups, job.g)]
           logged == [job EXCEPT !.calls = Append(job.calls, call),
                                 !.io = Append(job.io, "continuous_to_dat")]
       IN \E ok \in BOOLEAN :
            job' = IF ~ok
                   THEN [logged EXCEPT !.pc = "raised", !.err = "ConversionError"]
                   ELSE LET written ==
                              [logged EXCEPT !.out[job.g] =
                                  ContinuousToDat(job.out[job.g], call.source,
                                                  call.append)]
                        IN IF job.s < job.args.targets
                           THEN [written EXCEPT !.s = job.s + 1]
                           ELSE [written EXCEPT !.g = job.g + 1, !.s = 1]
    /\ UNCHANGED <<file, cf, res, yielded, handles, load, chk>>

\* the loops are over
MainReturn ==
    /\ job.pc = "loop"
    /\ job.g > Len(job.groups) \/ job.args.targets = 0
    /\ job' = [job EXCEPT !.pc = "returned"]
    /\ UNCHANGED <<file, cf, res, yielded, handles, load, chk>>

NextMain == MainCheckConfig \/ MainLayout \/ MainNames \/ MainConvert \/ MainReturn

SpecMain == InitMain /\ [][NextMain]_vars

\* ------------------------------------------------- properties: reader
\* start timestamp of record r (1-based) in microseconds, from the file
RecordTime(r) == file.ts[r] * ConvUsec(file)
NumRecords == Len(file.ts)
\* the reader's record dtype is the one the file was written with
DtypeMatches == cf.blockLength = NUM_SAMPLES
MarkersIntact == \A r \in 1..NumRecords : file.mark[r] = REC_MARKER
Selected == res.op = "read_interval" /\ res.selected
Returned == res.op = "read_interval" /\ res.err = "none"
ReturnedRecords == Range(res.recs)

\* C1: iterating a reader (inside its with-block, on a file whose markers
\* are intact and whose records have the header's block length) ends with
\* StopIteration, never with an error, and yields only records of the
\* blocks cur_block..last_block.
C1_FiniteProducer ==
    (res.op = "next" /\ cf.entered /\ cf.fid = "open" /\ DtypeMatches
        /\ MarkersIntact /\ NumRecords >= 1)
    => /\ res.err \in {"none", "StopIteration"}
       /\ \A j \in 1..Len(yielded) :
            yielded[j] - 1 \in cf.cur_block..cf.last_block

\* C2: on a sorted index, first_block is 0 when t_min is unset or <= the
\* first timestamp, else the index of the last record whose timestamp is
\* < t_min; n_blocks runs to the final record when t_max is unset or >= the
\* last timestamp, else ends at the first record whose timestamp is > t_max.
C2_SelectInterval ==
    (Selected /\ NonDecreasing(cf.bts))
    => LET bt == cf.bts
           fb == res.first_block
           nb == res.n_blocks
       IN /\ IF res.t_min = None \/ Val(res.t_min) <= bt[1]
             THEN fb = 0
             ELSE /\ fb \in 0..Len(bt) - 1
                  /\ bt[fb + 1] < Val(res.t_min)
                  /\ \A j \in fb + 2..Len(bt) : bt[j] >= Val(res.t_min)
          /\ IF res.t_max = None \/ Val(res.t_max) >= bt[Len(bt)]
             THEN nb = NumRecords - fb
             ELSE LET e == fb + nb
                  IN /\ e \in 0..Len(bt) - 1
                     /\ bt[e + 1] > Val(res.t_max)
                     /\ \A j \in 1..e : bt[j] <= Val(res.t_max)

C2_Witness ==
    /\ Selected /\ NonDecreasing(cf.bts) /\ DtypeMatches
    /\ res.t_min # None /\ res.t_max # None
    /\ Val(res.t_min) > cf.bts[1]
    /\ Val(res.t_max) < cf.bts[Len(cf.bts)]
    /\ res.first_block = 0 /\ res.n_blocks = 1 /\ NumRecords = 2

\* the interval lies inside the span of the record start timestamps
IntervalInside ==
    /\ res.t_min # None /\ res.t_max # None
    /\ RecordTime(1) <= Val(res.t_min)
    /\ Val(res.t_min) <= Val(res.t_max)
    /\ Val(res.t_max) <= RecordTime(NumRecords)
\* the interval starts before the first record and ends after the last
IntervalAround ==
    /\ res.t_min # None /\ res.t_max # None
    /\ Val(res.t_min) < RecordTime(1)
    /\ Val(res.t_max) > RecordTime(NumRecords)
\* record r's range [start, next start) meets [t_min, t_max]
Overlaps(r) ==
    /\ RecordTime(r) <= Val(res.t_max)
    /\ (r = NumRecords \/ RecordTime(r + 1) > Val(res.t_min))
\* record r's range [start, next start] meets [t_min, t_max]
OverlapsClosed(r) ==
    /\ RecordTime(r) <= Val(res.t_max)
    /\ (r = NumRecords \/ RecordTime(r + 1) >= Val(res.t_min))
SyntheticFile == DtypeMatches /\ NumRecords >= 1 /\ Increasing(file.ts)

\* C3 as stated: an interval inside the file returns exactly the records
\* whose range [start, next start) overlaps it; an interval around the
\* file returns records 0..R-1.
C3_ExactOverlap ==
    (Returned /\ SyntheticFile)
    => /\ IntervalInside
            => ReturnedRecords = {r \in 1..NumRecords : Overlaps(r)}
       /\ IntervalAround => ReturnedRecords = 1..NumRecords

\* C3 amended: an interval inside the file returns exactly the records
\* whose range, closed at both ends [start, next start], overlaps it (so
\* the record that ends exactly at t_min is returned too); an interval
\* around the file returns records 0..R-1.
C3_ClosedOverlap ==
    (Returned /\ SyntheticFile)
    => /\ IntervalInside
            => ReturnedRecords = {r \in 1..NumRecords : OverlapsClosed(r)}
       /\ IntervalAround => ReturnedRecords = 1..NumRecords

C3_Witness ==
    /\ Returned /\ SyntheticFile /\ IntervalInside
    /\ \E r \in 2..NumRecords : RecordTime(r) = Val(res.t_min)
    /\ Cardinality(ReturnedRecords) = 2

\* C4: a read that returns samples returns none from a record whose
\* marker differs from REC_MARKER.
C4_EveryMarkerChecked ==
    (res.op \in {"next", "read_interval"} /\ res.err = "none")
    => \A j \in 1..Len(res.recs) :
         res.recs[j] # 0 => file.mark[res.recs[j]] = REC_MARKER

\* C5: once load_continuous_tsd has returned or raised, no handle opened
\* by a reader is open.
C5_HandlesReleased ==
    load.pc \in {"returned", "raised"} => handles = 0

\* C9: when read_interval returns, there are as many timestamps as
\* samples, and the timestamp at each sample's position is the start
\* timestamp of the sample's record plus the sample's index in the record
\* times 1e6/sampleRate.
C9_SamplesMatchTimestamps ==
    Returned
    => /\ res.len = res.tslen
       /\ \A p \in 0..res.len - 1 :
            LET conv == ConvUsec(file)
                row == SampleTimestamps(cf.bts,
                                        res.tblocks[p \div NUM_SAMPLES + 1], conv)
                rec == res.recs[p \div cf.blockLength + 1]
                i == p % cf.blockLength
            IN row[(p % NUM_SAMPLES) + 1] = RecordTime(rec) + i * conv

C9_Witness ==
    /\ Returned /\ res.n_blocks = 2 /\ res.t_min # None
    /\ res.len = 2 * NUM_SAMPLES

\* C10: with at least one record, a sorted index and t_min <= t_max, the
\* selected range is non-empty and in bounds.
C10_NonEmptyRange ==
    (Selected /\ DtypeMatches /\ MarkersIntact /\ NumRecords >= 1
        /\ (res.t_min # None /\ res.t_max # None
                => Val(res.t_min) <= Val(res.t_max)))
    => /\ res.first_block >= 0
       /\ res.n_blocks >= 1
       /\ res.first_block + res.n_blocks <= NumRecords

\* ----------------------------------------- properties: check_headers
HeaderFields == {"num_records", "sampleRate", "bufferSize", "blockLength"}
Diverging(field) == ~AllSame(Column(chk.oe_file, field))

\* C6: check_headers returns the four values exactly when each is the
\* same for every reader, and otherwise fails with an error that names a
\* diverging field.
C6_MismatchNamed ==
    (chk.pc = "done" /\ Len(chk.oe_file) >= 1)
    => IF \A fl \in HeaderFields : ~Diverging(fl)
       THEN /\ chk.err = "none"
            /\ chk.ret = <<chk.oe_file[1].num_records, chk.oe_file[1].sampleRate,
                           chk.oe_file[1].bufferSize, chk.oe_file[1].blockLength>>
       ELSE /\ chk.err # "none"
            /\ \E fl \in HeaderFields : Diverging(fl) /\ fl \in chk.msg

\* ---------------------------------------------------- properties: main
\* the calls a complete run makes: group by group, the sources in order
RECURSIVE ExpectedCalls(_, _, _)
ExpectedCalls(groups, g, targets) ==
    IF g > Len(groups) THEN <<>>
    ELSE [s \in 1..targets |->
            [cg |-> groups[g], source |-> s, append |-> s > 1,
             path |-> groups[g]]]
         \o ExpectedCalls(groups, g + 1, targets)

\* C7: the calls made so far are the first calls of: for each group in
\* order, every source in listed order to the group's one output path,
\* append false for the first source and true for the later ones; a run
\* that returns made them all, and each group's output then holds the
\* sources in listed order.
C7_SourcesInOrder ==
    LET want == ExpectedCalls(job.groups, 1, job.args.targets)
    IN /\ Len(job.calls) <= Len(want)
       /\ \A k \in 1..Len(job.calls) : job.calls[k] = want[k]
       /\ job.pc = "returned"
            => /\ job.calls = want
               /\ \A g \in 1..Len(job.groups) :
                    job.out[g] = [s \in 1..job.args.targets |-> s]

C7_Witness ==
    /\ job.pc = "returned"
    /\ Len(job.groups) = 2 /\ job.args.targets = 2
    /\ Len(job.calls) = 4

\* C8: when trailing-zero removal or combined channel groups are asked
\* for, main raises NotImplementedError having loaded no layout file and
\* made no conversion call.
C8_FailFast ==
    (job.args.remove_trailing_zeros \/ job.args.split_groups)
    => /\ job.io = <<>>
       /\ job.calls = <<>>
       /\ job.pc \in {"config", "raised"}
       /\ job.pc = "raised" => job.err = "NotImplementedError"

C8_Witness ==
    /\ job.pc = "raised" /\ job.err = "NotImplementedError"
    /\ job.args.split_groups /\ ~job.args.remove_trailing_zeros
    /\ job.args.channels = "layout" /\ job.args.targets >= 1

====
